---- MODULE Spec2Model ----
(***************************************************************************)
(* SEBI IPO API: the request path of src/main.py (routing, the auth guard  *)
(* of src/auth.py, the slowapi rate limiter, the SQL the handlers build,   *)
(* pagination arithmetic, response shaping and the connection discipline   *)
(* of src/database.py).                                                    *)
(*                                                                         *)
(* Strings are tuples of one-character strings, so that LIKE matching,     *)
(* substring search and integer parsing are computed character by          *)
(* character. An Optional[str] is a set: {} is None, {v} is the value v.   *)
(***************************************************************************)
EXTENDS Integers, Sequences, FiniteSets, TLC

(* ------------------------------ bounds -------------------------------- *)
\* a table holds the identifiers 1..n for some n <= MaxId; page numbers
\* tried are 0..MaxId and page sizes 0..MaxId - 1
MaxId == 3
\* Spec: limiter hits allowed in all (no time passes in Spec)
MaxHits == 1
\* SpecRate: hits allowed past the ceiling
MaxOver == 1
\* SpecRate: the clock advances MaxTicks times, TickSecs seconds each
MaxTicks == 2
TickSecs == 30

(* ------------------------- program constants -------------------------- *)
\* @limiter.limit("100/minute")
RateLimit == 100
WindowSecs == 60
\* limit: int = Query(50, ge=1, le=500)
ListLimitMax == 500
ListLimitDefault == 50
\* limit: int = Query(10, ge=1, le=100)
LatestLimitMax == 100
LatestLimitDefault == 10
\* API_KEY = os.getenv('API_KEY', ...): some configured, non-empty key
API_KEY == <<"k", "1">>

(* ------------------------------ strings ------------------------------- *)
Digits == <<"0", "1", "2", "3", "4", "5", "6", "7", "8", "9">>

IsDigit(c) == \E i \in 1..10 : Digits[i] = c

DigitVal(c) == (CHOOSE i \in 1..10 : Digits[i] = c) - 1

\* the framework's coercion of a path or query text to int
IsIntText(s) == Len(s) > 0 /\ \A i \in 1..Len(s) : IsDigit(s[i])

RECURSIVE ParseInt(_)
ParseInt(s) ==
    IF Len(s) = 0 THEN 0
    ELSE 10 * ParseInt(SubSeq(s, 1, Len(s) - 1)) + DigitVal(s[Len(s)])

\* literal substring test
Contains(s, sub) ==
    \E i \in 0..(Len(s) - Len(sub)) : SubSeq(s, i + 1, i + Len(sub)) = sub

\* the store's LIKE: '%' matches any run of characters, '_' exactly one
RECURSIVE Like(_, _)
Like(s, p) ==
    IF p = <<>> THEN s = <<>>
    ELSE IF Head(p) = "%" THEN Like(s, Tail(p)) \/ (s # <<>> /\ Like(Tail(s), p))
    ELSE IF Head(p) = "_" THEN s # <<>> /\ Like(Tail(s), Tail(p))
    ELSE s # <<>> /\ Head(s) = Head(p) /\ Like(Tail(s), Tail(p))

\* Python truthiness of an Optional[str]: None and "" are falsy
Truthy(opt) == opt # {} /\ (CHOOSE v \in opt : TRUE) # <<>>

Val(opt) == CHOOSE v \in opt : TRUE

Min(a, b) == IF a < b THEN a ELSE b

(* ------------------------- the ipos table ------------------------------ *)
D1 == <<"0", "1">>
D2 == <<"0", "2">>

\* (filing_date, company_name) of the rows tried
RowKinds == {<<D1, <<"a", "b">>>>, <<D2, <<"b">>>>}

Row(i, k) ==
    [id |-> i, filing_date |-> k[1], company_name |-> k[2],
     pdf_urls |-> <<"u", Digits[i + 1]>>]

Ids == 1..MaxId

\* every table: rows with the identifiers 1..n, n <= MaxId
Tables ==
    UNION {{{Row(i, f[i]) : i \in 1..n} : f \in [1..n -> RowKinds]} : n \in 0..MaxId}

\* the table SpecRate runs on
RateTable == {Row(1, <<D1, <<"a", "b">>>>), Row(2, <<D2, <<"b">>>>)}

(* ------------------------- src/database.py ----------------------------- *)
\* what the store does during one request: nothing wrong, connect() raising
\* Error, connect() returning an unconnected handle, cursor() raising,
\* execute() raising, a fetch raising, execute() raising because the server
\* dropped the connection
Faults == {"none", "connect", "not_connected", "cursor", "execute", "fetch", "lost"}

\* what the store can do while a connection is being opened
ConnectFaults == {"none", "connect", "not_connected"}

\* a connection handle is "none" (None), "open", "closed" or "lost"
get_database_connection(fault) ==
    IF fault = "connect" THEN "none"
    ELSE IF fault = "not_connected" THEN "none"
    ELSE "open"

is_connected(conn) == conn = "open"

close_connection(conn) ==
    IF conn # "none" /\ is_connected(conn) THEN "closed" ELSE conn

(* ------------------------- src/auth.py --------------------------------- *)
verify_api_key(x_api_key) ==
    IF x_api_key # API_KEY
    THEN [raised |-> TRUE, status |-> 401, detail |-> "Invalid or missing API key"]
    ELSE [raised |-> FALSE, value |-> x_api_key]

(* ------------------------- SQL of the handlers ------------------------- *)
RECURSIVE OrderByIdDesc(_)
OrderByIdDesc(rows) ==
    IF rows = {} THEN <<>>
    ELSE LET top == CHOOSE r \in rows : \A q \in rows : q.id <= r.id
         IN <<top>> \o OrderByIdDesc(rows \ {top})

\* LIMIT lim OFFSET off
LimitOffset(seq, lim, off) == SubSeq(seq, off + 1, Min(off + lim, Len(seq)))

\* a WHERE clause without the date predicate
WhereClauseNoDate(row, company, date) ==
    Truthy(company) => Like(row.company_name, <<"%">> \o Val(company) \o <<"%">>)

\* "WHERE 1=1" plus the clauses the handler appends
WhereClause(row, company, date) ==
    /\ (Truthy(company) => Like(row.company_name, <<"%">> \o Val(company) \o <<"%">>))
    /\ (Truthy(date) => row.filing_date = Val(date))

CountQuery(tbl, company, date) ==
    Cardinality({r \in tbl : WhereClause(r, company, date)})

\* an offset that counts pages from 0
ListOffsetFromPage(page, limit) == page * limit

ListOffset(page, limit) == (page - 1) * limit

ListQuery(tbl, company, date, limit, offset) ==
    LimitOffset(OrderByIdDesc({r \in tbl : WhereClause(r, company, date)}), limit, offset)

ByIdQuery(tbl, ipo_id) == {r \in tbl : r.id = ipo_id}

LatestQuery(tbl, limit) == LimitOffset(OrderByIdDesc(tbl), limit, 0)

FormatRow(row) ==
    [filing_date |-> row.filing_date, company_name |-> row.company_name,
     pdf_url |-> row.pdf_urls]

FormatRows(rows) == [i \in 1..Len(rows) |-> FormatRow(rows[i])]

TotalPages(total_count, limit) == (total_count + limit - 1) \div limit

(* ------------------------- responses ----------------------------------- *)
Ok(kind, body) == [status |-> 200, kind |-> kind, detail |-> "", body |-> body]

HttpError(status, detail) ==
    [status |-> status, kind |-> "error", detail |-> detail, body |-> <<>>]

NoResp == [status |-> 0, kind |-> "none", detail |-> "", body |-> <<>>]

(* ------------------------- handler bodies ------------------------------ *)
\* The try block of get_ipos: what it raised (if anything), the connection
\* handle afterwards, the queries executed and the value returned.
get_ipos_try(conn, tbl, page, limit, company, date, fault) ==
    IF fault = "cursor" THEN [raised |-> "Exception", conn |-> conn, queries |-> 0]
    ELSE IF fault = "execute" THEN [raised |-> "Exception", conn |-> conn, queries |-> 0]
    ELSE IF fault = "lost" THEN [raised |-> "Exception", conn |-> "lost", queries |-> 0]
    ELSE IF fault = "fetch" THEN [raised |-> "Exception", conn |-> conn, queries |-> 1]
    ELSE LET total_count == CountQuery(tbl, company, date)
             offset == ListOffset(page, limit)
             results == ListQuery(tbl, company, date, limit, offset)
             ipos == FormatRows(results)
         IN [raised |-> "none", conn |-> close_connection(conn), queries |-> 2,
             value |-> [total |-> total_count, page |-> page, limit |-> limit,
                        total_pages |-> TotalPages(total_count, limit),
                        data |-> ipos]]

\* an except clause that raises without closing
get_ipos_except_noclose(t) ==
    [resp |-> HttpError(500, "Error"), conn |-> t.conn, queries |-> t.queries]

\* except Exception as e: ... close_connection(conn); raise HTTPException(500)
get_ipos_except(t) ==
    [resp |-> HttpError(500, "Error"), conn |-> close_connection(t.conn),
     queries |-> t.queries]

get_ipos(tbl, page, limit, company, date, fault) ==
    LET conn == get_database_connection(fault)
    IN IF conn = "none"
       THEN [resp |-> HttpError(500, "Database connection failed"),
             conn |-> "none", queries |-> 0]
       ELSE LET t == get_ipos_try(conn, tbl, page, limit, company, date, fault)
            IN IF t.raised = "none"
               THEN [resp |-> Ok("list", t.value), conn |-> t.conn, queries |-> t.queries]
               ELSE get_ipos_except(t)

\* The try block of get_ipo_by_id; the 404 is raised after the connection
\* has been closed.
get_ipo_by_id_try(conn, tbl, ipo_id, fault) ==
    IF fault = "cursor" THEN [raised |-> "Exception", conn |-> conn, queries |-> 0]
    ELSE IF fault = "execute" THEN [raised |-> "Exception", conn |-> conn, queries |-> 0]
    ELSE IF fault = "lost" THEN [raised |-> "Exception", conn |-> "lost", queries |-> 0]
    ELSE IF fault = "fetch" THEN [raised |-> "Exception", conn |-> conn, queries |-> 1]
    ELSE LET result == ByIdQuery(tbl, ipo_id)
             closed == close_connection(conn)
         IN IF result = {}
            THEN [raised |-> "HTTPException", conn |-> closed, queries |-> 1,
                  error |-> HttpError(404, "IPO not found")]
            ELSE [raised |-> "none", conn |-> closed, queries |-> 1,
                  value |-> FormatRow(CHOOSE r \in result : TRUE)]

\* a handler with the generic except clause alone
get_ipo_by_id_except_generic(t) ==
    [resp |-> HttpError(500, "Error"), conn |-> close_connection(t.conn),
     queries |-> t.queries]

\* except HTTPException: raise / except Exception as e: ... raise HTTPException(500)
get_ipo_by_id_except(t) ==
    IF t.raised = "HTTPException"
    THEN [resp |-> t.error, conn |-> t.conn, queries |-> t.queries]
    ELSE [resp |-> HttpError(500, "Error"), conn |-> close_connection(t.conn),
          queries |-> t.queries]

get_ipo_by_id(tbl, ipo_id, fault) ==
    LET conn == get_database_connection(fault)
    IN IF conn = "none"
       THEN [resp |-> HttpError(500, "Database connection failed"),
             conn |-> "none", queries |-> 0]
       ELSE LET t == get_ipo_by_id_try(conn, tbl, ipo_id, fault)
            IN IF t.raised = "none"
               THEN [resp |-> Ok("record", t.value), conn |-> t.conn, queries |-> t.queries]
               ELSE get_ipo_by_id_except(t)

get_latest_ipos_try(conn, tbl, limit, fault) ==
    IF fault = "cursor" THEN [raised |-> "Exception", conn |-> conn, queries |-> 0]
    ELSE IF fault = "execute" THEN [raised |-> "Exception", conn |-> conn, queries |-> 0]
    ELSE IF fault = "lost" THEN [raised |-> "Exception", conn |-> "lost", queries |-> 0]
    ELSE IF fault = "fetch" THEN [raised |-> "Exception", conn |-> conn, queries |-> 1]
    ELSE LET ipos == FormatRows(LatestQuery(tbl, limit))
         IN [raised |-> "none", conn |-> close_connection(conn), queries |-> 1,
             value |-> [count |-> Len(ipos), data |-> ipos]]

get_latest_ipos_except(t) ==
    [resp |-> HttpError(500, "Error"), conn |-> close_connection(t.conn),
     queries |-> t.queries]

get_latest_ipos(tbl, limit, fault) ==
    LET conn == get_database_connection(fault)
    IN IF conn = "none"
       THEN [resp |-> HttpError(500, "Database connection failed"),
             conn |-> "none", queries |-> 0]
       ELSE LET t == get_latest_ipos_try(conn, tbl, limit, fault)
            IN IF t.raised = "none"
               THEN [resp |-> Ok("latest", t.value), conn |-> t.conn, queries |-> t.queries]
               ELSE get_latest_ipos_except(t)

\* a health check that raises on a failed connection, as the protected
\* handlers do
health_check_raises(fault) ==
    LET conn == get_database_connection(fault)
    IN IF conn # "none"
       THEN [resp |-> Ok("health", [status |-> "healthy", database |-> "connected"]),
             conn |-> close_connection(conn), queries |-> 0]
       ELSE [resp |-> HttpError(500, "Database connection failed"),
             conn |-> "none", queries |-> 0]

health_check(fault) ==
    LET conn == get_database_connection(fault)
    IN IF conn # "none"
       THEN [resp |-> Ok("health", [status |-> "healthy", database |-> "connected"]),
             conn |-> close_connection(conn), queries |-> 0]
       ELSE [resp |-> Ok("health", [status |-> "unhealthy", database |-> "disconnected"]),
             conn |-> "none", queries |-> 0]

home ==
    [resp |-> Ok("home", [status |-> "online"]), conn |-> "none", queries |-> 0]

(* ------------------------- routing ------------------------------------- *)
HEALTH == <<"h", "e", "a", "l", "t", "h">>
IPOS == <<"i", "p", "o", "s">>
LATEST == <<"l", "a", "t", "e", "s", "t">>

Lit(seg) == [param |-> FALSE, lit |-> seg]
PathParam == [param |-> TRUE, lit |-> <<>>]

\* the routes in the order the decorators register them
Routes ==
    << [name |-> "home", pattern |-> <<>>],
       [name |-> "health_check", pattern |-> <<Lit(HEALTH)>>],
       [name |-> "get_ipos", pattern |-> <<Lit(IPOS)>>],
       [name |-> "get_ipo_by_id", pattern |-> <<Lit(IPOS), PathParam>>],
       [name |-> "get_latest_ipos", pattern |-> <<Lit(IPOS), Lit(LATEST)>>] >>

\* a path parameter matches any non-empty segment; a literal only itself
MatchPattern(pattern, path) ==
    /\ Len(pattern) = Len(path)
    /\ \A i \in 1..Len(pattern) :
          IF pattern[i].param THEN path[i] # <<>> ELSE path[i] = pattern[i].lit

\* the first registered route whose pattern matches handles the request
MatchRoute(path) ==
    IF \E i \in 1..Len(Routes) : MatchPattern(Routes[i].pattern, path)
    THEN LET first == CHOOSE i \in 1..Len(Routes) :
                         /\ MatchPattern(Routes[i].pattern, path)
                         /\ \A j \in 1..(i - 1) : ~MatchPattern(Routes[j].pattern, path)
         IN Routes[first].name
    ELSE "not_found"

(* ------------------------- rate limiter -------------------------------- *)
Clients == {"c1", "c2"}
Scopes == {"get_ipos", "get_ipo_by_id", "get_latest_ipos"}
Keys == Clients \X Scopes

\* key_func=get_remote_address, one counter per decorated endpoint
LimitKey(client, scope) == <<client, scope>>

\* the in-memory storage drops a key whose expiry has passed when it is read
StorageGet(lim, k, t) ==
    IF lim.expirations[k] <= t
    THEN [storage |-> [lim.storage EXCEPT ![k] = 0],
          expirations |-> [lim.expirations EXCEPT ![k] = 0]]
    ELSE lim

\* the expiry is set by the hit that makes the count 1, and only by it
StorageIncr(lim, k, t) ==
    LET g == StorageGet(lim, k, t)
        n == g.storage[k] + 1
    IN [storage |-> [g.storage EXCEPT ![k] = n],
        expirations |-> IF n = 1 THEN [g.expirations EXCEPT ![k] = t + WindowSecs]
                        ELSE g.expirations]

\* a limiter that turns the request away when the count reaches the limit
WithinLimitStrict(count) == count < RateLimit

WithinLimit(count) == count <= RateLimit

\* limiter.hit: count the request, admit it while the count is within the limit
Hit(lim, k, t) ==
    LET after == StorageIncr(lim, k, t)
    IN [lim |-> after, ok |-> WithinLimit(after.storage[k])]

(* ------------------------- the request pipeline ------------------------ *)
\* A request: the client address, the path (its segments), the X-API-Key
\* header and the query parameters, each of them optional.
Request(client, path, header, page, limit, company, date) ==
    [client |-> client, path |-> path, header |-> header, page |-> page,
     limit |-> limit, company |-> company, date |-> date]

NoReq == Request("", <<>>, {}, {}, {}, {}, {})

Default(opt, d) == IF opt = {} THEN d ELSE Val(opt)

\* Depends(verify_api_key) with x_api_key: str = Header(...): a missing header
\* is a validation error of the dependency, which is then not called; a
\* present one is handed to verify_api_key, whose HTTPException ends the
\* request at once.
SolveDependency(req) ==
    IF req.header = {} THEN "invalid"
    ELSE IF verify_api_key(Val(req.header)).raised THEN "unauthorized"
    ELSE "ok"

\* validation of the endpoint's own parameters (Query(ge=, le=), ipo_id: int)
ParamsValid(scope, req) ==
    CASE scope = "get_ipos" ->
            /\ Default(req.page, 1) >= 1
            /\ Default(req.limit, ListLimitDefault) >= 1
            /\ Default(req.limit, ListLimitDefault) <= ListLimitMax
      [] scope = "get_ipo_by_id" -> IsIntText(req.path[2])
      [] scope = "get_latest_ipos" ->
            /\ Default(req.limit, LatestLimitDefault) >= 1
            /\ Default(req.limit, LatestLimitDefault) <= LatestLimitMax

\* the decorated function's own body
Body(scope, req, tbl, fault) ==
    CASE scope = "get_ipos" ->
            get_ipos(tbl, Default(req.page, 1), Default(req.limit, ListLimitDefault),
                     req.company, req.date, fault)
      [] scope = "get_ipo_by_id" -> get_ipo_by_id(tbl, ParseInt(req.path[2]), fault)
      [] scope = "get_latest_ipos" ->
            get_latest_ipos(tbl, Default(req.limit, LatestLimitDefault), fault)

Unserved(resp, lim) ==
    [resp |-> resp, conn |-> "none", queries |-> 0, lim |-> lim,
     admitted |-> FALSE, ran |-> "none", counted |-> FALSE]

\* @limiter.limit("100/minute") wraps the function: the check runs when the
\* framework calls the endpoint, after its dependencies and parameters.
Limited(scope, req, lim, t, tbl, fault) ==
    LET h == Hit(lim, LimitKey(req.client, scope), t)
    IN IF ~h.ok
       THEN [Unserved(HttpError(429, "Rate limit exceeded"), h.lim) EXCEPT !.counted = TRUE]
       ELSE LET b == Body(scope, req, tbl, fault)
            IN [resp |-> b.resp, conn |-> b.conn, queries |-> b.queries, lim |-> h.lim,
                admitted |-> TRUE, ran |-> scope, counted |-> TRUE]

\* the pipeline with the limiter ahead of the dependencies, as a limiter
\* middleware would run it
ProtectedLimiterFirst(scope, req, lim, t, tbl, fault) ==
    LET h == Hit(lim, LimitKey(req.client, scope), t)
        dep == SolveDependency(req)
    IN IF ~h.ok
       THEN [Unserved(HttpError(429, "Rate limit exceeded"), h.lim) EXCEPT !.counted = TRUE]
       ELSE IF dep = "unauthorized"
       THEN [Unserved(HttpError(401, "Invalid or missing API key"), h.lim)
                EXCEPT !.counted = TRUE]
       ELSE IF dep = "invalid" \/ ~ParamsValid(scope, req)
       THEN [Unserved(HttpError(422, "validation"), h.lim) EXCEPT !.counted = TRUE]
       ELSE LET b == Body(scope, req, tbl, fault)
            IN [resp |-> b.resp, conn |-> b.conn, queries |-> b.queries, lim |-> h.lim,
                admitted |-> TRUE, ran |-> scope, counted |-> TRUE]

\* @app.get(...) over the wrapped function: dependencies, then parameters,
\* then the call
Protected(scope, req, lim, t, tbl, fault) ==
    LET dep == SolveDependency(req)
    IN IF dep = "unauthorized"
       THEN Unserved(HttpError(401, "Invalid or missing API key"), lim)
       ELSE IF dep = "invalid" \/ ~ParamsValid(scope, req)
       THEN Unserved(HttpError(422, "validation"), lim)
       ELSE Limited(scope, req, lim, t, tbl, fault)

Public(name, b, lim) ==
    [resp |-> b.resp, conn |-> b.conn, queries |-> b.queries, lim |-> lim,
     admitted |-> FALSE, ran |-> name, counted |-> FALSE]

\* one request, from routing to the response
Serve(req, lim, t, tbl, fault) ==
    LET route == MatchRoute(req.path)
    IN CASE route = "home" -> Public(route, home, lim)
         [] route = "health_check" -> Public(route, health_check(fault), lim)
         [] route \in Scopes -> Protected(route, req, lim, t, tbl, fault)
         [] OTHER -> Unserved(HttpError(404, "Not Found"), lim)

(* ------------------------- state --------------------------------------- *)
VARIABLES
    table,        \* the rows of the ipos table
    storage,      \* limiter: hits counted per key in its current window
    expirations,  \* limiter: when each key's window ends (0: no window)
    now,          \* the clock, in seconds
    phase,        \* "idle", or "done": a response is ready to be sent
    req,          \* the request being answered
    resp,         \* its response
    conn,         \* the connection handle the handler obtained, as it left it
    queries,      \* the queries the handler executed
    ran,          \* the handler whose body ran ("none": the body did not run)
    fault,        \* what the store did during the request
    admits        \* per key and instant: requests the limiter let through

vars ==
    <<table, storage, expirations, now, phase, req, resp, conn, queries, ran,
      fault, admits>>

Times == {i * TickSecs : i \in 0..MaxTicks}

TypeOK ==
    /\ table \in Tables
    /\ storage \in [Keys -> Nat]
    /\ expirations \in [Keys -> Nat]
    /\ now \in Times
    /\ phase \in {"idle", "done"}
    /\ conn \in {"none", "open", "closed", "lost"}
    /\ queries \in 0..2
    /\ fault \in Faults
    /\ admits \in [Keys -> [Times -> Nat]]

Quiet ==
    /\ storage = [k \in Keys |-> 0]
    /\ expirations = [k \in Keys |-> 0]
    /\ now = 0
    /\ phase = "idle"
    /\ req = NoReq
    /\ resp = NoResp
    /\ conn = "none"
    /\ queries = 0
    /\ ran = "none"
    /\ fault = "none"
    /\ admits = [k \in Keys |-> [t \in Times |-> 0]]

Init == table \in Tables /\ Quiet

InitRate == table = RateTable /\ Quiet

(* ------------------------- actions ------------------------------------- *)
\* what the store may do during a request: only a handler body that runs
\* contacts the store, and /health only connects
StoreEvents(handler) ==
    CASE handler = "health_check" -> ConnectFaults
      [] handler \in Scopes -> Faults
      [] OTHER -> {"none"}

\* One request r, answered while the store behaves as some f of F.
Handle(r, F) ==
    /\ phase = "idle"
    /\ \E lim \in {[storage |-> storage, expirations |-> expirations]} :
       \E f \in StoreEvents(Serve(r, lim, now, table, "none").ran) \cap F :
       \E out \in {Serve(r, lim, now, table, f)} :
          /\ storage' = out.lim.storage
          /\ expirations' = out.lim.expirations
          /\ resp' = out.resp
          /\ conn' = out.conn
          /\ queries' = out.queries
          /\ ran' = out.ran
          /\ fault' = f
          /\ admits' = IF out.admitted
                       THEN [admits EXCEPT ![LimitKey(r.client, out.ran)][now] = @ + 1]
                       ELSE admits
    /\ req' = r
    /\ phase' = "done"
    /\ UNCHANGED <<table, now>>

ReqHome(c) == Handle(Request(c, <<>>, {}, {}, {}, {}, {}), Faults)

ReqHealth(c) == Handle(Request(c, <<HEALTH>>, {}, {}, {}, {}, {}), Faults)

ReqIpos(c, hdr, page, limit, company, date, F) ==
    Handle(Request(c, <<IPOS>>, hdr, page, limit, company, date), F)

ReqIpoById(c, hdr, seg) ==
    Handle(Request(c, <<IPOS, seg>>, hdr, {}, {}, {}, {}), Faults)

ReqLatest(c, hdr, limit) ==
    Handle(Request(c, <<IPOS, LATEST>>, hdr, {}, limit, {}, {}), Faults)

\* the response is sent and the request's scope ends
Deliver ==
    /\ phase = "done"
    /\ phase' = "idle"
    /\ req' = NoReq
    /\ resp' = NoResp
    /\ conn' = "none"
    /\ queries' = 0
    /\ ran' = "none"
    /\ fault' = "none"
    /\ UNCHANGED <<table, storage, expirations, now, admits>>

\* time passes between requests; admits keeps the last WindowSecs seconds
Tick ==
    /\ phase = "idle"
    /\ now < MaxTicks * TickSecs
    /\ now' = now + TickSecs
    /\ admits' = [k \in Keys |-> [t \in Times |->
                     IF now' - t < WindowSecs THEN admits[k][t] ELSE 0]]
    /\ UNCHANGED <<table, storage, expirations, phase, req, resp, conn, queries,
                   ran, fault>>

(* ------------------------- inputs -------------------------------------- *)
WrongKey == <<"k", "2">>
Headers == {{}, {API_KEY}, {WrongKey}}
PageArgs == {{}} \cup {{p} : p \in 0..MaxId}
LimitArgs == {{}} \cup {{l} : l \in 0..(MaxId - 1)} \cup {{ListLimitMax + 1}}
CompanyArgs == {{}, {<<>>}, {<<"a">>}, {<<"_">>}}
DateArgs == {{}, {<<>>}, {D1}, {D2}}
IdSegs == {<<Digits[i + 1]>> : i \in 0..(MaxId + 1)} \cup {<<"0", "2">>, <<"x">>}
LatestLimitArgs == {{}} \cup {{l} : l \in 0..(MaxId - 1)} \cup {{LatestLimitMax + 1}}

RECURSIVE SumOver(_, _)
SumOver(f, S) ==
    IF S = {} THEN 0
    ELSE LET x == CHOOSE y \in S : TRUE IN f[x] + SumOver(f, S \ {x})

Idle == phase = "idle"

(* ------------------------- Spec ---------------------------------------- *)
\* One client, every table, every request; the limiter counts at most
\* MaxHits requests in all.
MainBudget == SumOver(storage, Keys) <= MaxHits

Next ==
    \/ Idle /\ ReqHome("c1")
    \/ Idle /\ ReqHealth("c1")
    \/ Idle /\ \E hdr \in Headers, page \in PageArgs, limit \in LimitArgs,
                  company \in CompanyArgs, date \in DateArgs :
                  ReqIpos("c1", hdr, page, limit, company, date, Faults) /\ MainBudget'
    \/ Idle /\ \E hdr \in Headers, seg \in IdSegs :
                  ReqIpoById("c1", hdr, seg) /\ MainBudget'
    \/ Idle /\ \E hdr \in Headers, limit \in LatestLimitArgs :
                  ReqLatest("c1", hdr, limit) /\ MainBudget'
    \/ Deliver

Spec == Init /\ [][Next]_vars

(* ------------------------- SpecRate ------------------------------------ *)
\* One table and a store that answers. Client c1 drives its /ipos counter to
\* the ceiling and MaxOver hits past it, with every header, while the clock
\* advances.
HeavyKey == <<"c1", "get_ipos">>

RateBudget == storage[HeavyKey] <= RateLimit + MaxOver

NextRate ==
    \/ Idle /\ \E hdr \in Headers :
                  ReqIpos("c1", hdr, {1}, {1}, {}, {}, {"none"}) /\ RateBudget'
    \/ Deliver
    \/ Tick

SpecRate == InitRate /\ [][NextRate]_vars

(* ------------------------- claims -------------------------------------- *)
Done == phase = "done"

ProtectedPath(path) == Len(path) >= 1 /\ path[1] = IPOS

ValidKey(r) == r.header = {API_KEY}

EffPage == Default(req.page, 1)

EffLimit == Default(req.limit, ListLimitDefault)

\* C1 (as claimed): every request to a protected endpoint whose X-API-Key
\* header is absent or differs from the configured key is answered 401,
\* whatever its other parameters, and only a request with the exact key
\* reaches a handler body.
C1_Unauthorized401 ==
    (Done /\ ProtectedPath(req.path))
        => /\ (~ValidKey(req) => resp.status = 401)
           /\ (ran \in Scopes => ValidKey(req))

\* C3 (as claimed): GET /ipos/latest?limit=n with a valid key, n in [1,100]
\* and a reachable store is dispatched to the latest handler and answered 200
\* with {count, data}, data being the first n records of the unfiltered
\* /ipos list (page 1) over the same table.
C3_LatestServed ==
    (/\ Done
     /\ req.path = <<IPOS, LATEST>>
     /\ ValidKey(req)
     /\ Default(req.limit, LatestLimitDefault) \in 1..LatestLimitMax
     /\ fault = "none")
        => /\ ran = "get_latest_ipos"
           /\ resp.status = 200
           /\ resp.kind = "latest"
           /\ resp.body.count = Len(resp.body.data)
           /\ resp.body.data =
                 get_ipos(table, 1, Default(req.limit, LatestLimitDefault), {}, {},
                          "none").resp.body.data

\* C4: whatever handler ran and however it ended (success, 404, connection
\* failure, an exception from cursor(), execute() or a fetch), no connection
\* is open when the handler has returned or raised: the handle it obtained is
\* closed, or the store had already dropped it.
C4_NoOpenConnection ==
    Done => /\ conn # "open"
            /\ (conn = "lost" => fault = "lost")
            /\ ((ran \in Scopes \cup {"health_check"}
                   /\ fault \in {"none", "cursor", "execute", "fetch"})
                  => conn = "closed")

C4_Witness ==
    /\ Done
    /\ ran = "get_ipos"
    /\ fault = "fetch"
    /\ resp.status = 500
    /\ queries = 1
    /\ conn = "closed"

\* the rows the list query's WHERE clause selects
Selected == {r \in table : WhereClause(r, req.company, req.date)}

\* the row of S with exactly n rows of S above it by identifier
Ranked(S, n) == CHOOSE r \in S : Cardinality({q \in S : q.id > r.id}) = n

\* C5: a successful GET /ipos response has total = the number of rows the
\* filters select, total_pages = ceil(total / limit), at most limit records,
\* and data = the selected rows at positions [(page-1)*limit, page*limit) in
\* descending identifier order (empty beyond the last page).
C5_Pagination ==
    (Done /\ ran = "get_ipos" /\ resp.status = 200)
        => LET b == resp.body
               total == Cardinality(Selected)
               first == (EffPage - 1) * EffLimit
               left == IF total > first THEN total - first ELSE 0
           IN /\ EffPage >= 1 /\ EffLimit \in 1..ListLimitMax
              /\ b.total = total
              /\ b.page = EffPage /\ b.limit = EffLimit
              /\ b.total_pages * EffLimit >= total
              /\ (b.total_pages - 1) * EffLimit < total
              /\ Len(b.data) <= EffLimit
              /\ Len(b.data) = Min(EffLimit, left)
              /\ \A i \in 1..Len(b.data) :
                    b.data[i] = FormatRow(Ranked(Selected, first + i - 1))

\* the spec's example: three rows, page=2, limit=2 returns only id 1
C5_Witness ==
    /\ Done /\ ran = "get_ipos" /\ resp.status = 200
    /\ req.company = {} /\ req.date = {}
    /\ Cardinality(table) = 3
    /\ EffPage = 2 /\ EffLimit = 2
    /\ resp.body.total = 3 /\ resp.body.total_pages = 2
    /\ Len(resp.body.data) = 1
    /\ resp.body.data[1].pdf_url = <<"u", "1">>

DateCount(d) == Cardinality({r \in table : r.filing_date = d})

\* C6 (as claimed): for every value of the date parameter, the empty string
\* included, every returned record has exactly that filing date and total
\* counts only such records.
C6_DateExact ==
    (Done /\ ran = "get_ipos" /\ resp.status = 200 /\ req.date # {})
        => /\ \A i \in 1..Len(resp.body.data) :
                 resp.body.data[i].filing_date = Val(req.date)
           /\ resp.body.total <= DateCount(Val(req.date))

\* C6 (amended): for every non-empty date value every returned record has
\* exactly that filing date and total counts only such records; an empty
\* date is treated as no date filter (the response is that of the same
\* request without the parameter).
C6_DateExactNonEmpty ==
    (Done /\ ran = "get_ipos" /\ resp.status = 200 /\ req.date # {})
        => IF Val(req.date) # <<>>
           THEN /\ \A i \in 1..Len(resp.body.data) :
                      resp.body.data[i].filing_date = Val(req.date)
                /\ resp.body.total <= DateCount(Val(req.date))
           ELSE resp.body =
                   get_ipos(table, EffPage, EffLimit, req.company, {}, "none").resp.body

C6_Witness ==
    /\ Done /\ ran = "get_ipos" /\ resp.status = 200
    /\ req.date = {D1} /\ req.company = {}
    /\ Len(resp.body.data) >= 1
    /\ resp.body.total < Cardinality(table)

\* C7 (as claimed): for every value of the company parameter, wildcard
\* characters included, every returned record's company name contains the
\* value as a literal substring, and with a (non-empty) date given as well
\* every returned record satisfies both predicates.
C7_CompanySubstring ==
    (Done /\ ran = "get_ipos" /\ resp.status = 200 /\ req.company # {})
        => \A i \in 1..Len(resp.body.data) :
              /\ Contains(resp.body.data[i].company_name, Val(req.company))
              /\ (Truthy(req.date)
                    => resp.body.data[i].filing_date = Val(req.date))

\* C8: an authenticated, admitted GET /ipos/{id} with a store that answers
\* returns 404 when no row has the identifier and otherwise 200 with exactly
\* that row's filing_date, company_name and pdf_url; the 404 is not turned
\* into a 500.
C8_ByIdOr404 ==
    (Done /\ ran = "get_ipo_by_id" /\ fault = "none")
        => LET hit == {r \in table : r.id = ParseInt(req.path[2])}
           IN IF hit = {}
              THEN resp.status = 404 /\ resp.detail = "IPO not found"
              ELSE /\ resp.status = 200
                   /\ \E r \in hit :
                         resp.body = [filing_date |-> r.filing_date,
                                      company_name |-> r.company_name,
                                      pdf_url |-> r.pdf_urls]

C8_Witness ==
    /\ Done /\ ran = "get_ipo_by_id" /\ fault = "none"
    /\ table # {}
    /\ resp.status = 404
    /\ conn = "closed"

\* C10: GET /health needs no key and never answers with an error status:
\* healthy/connected after closing the connection when the connection
\* attempt succeeds, unhealthy/disconnected when it fails; the same failure
\* in a protected handler gives 500 "Database connection failed" with no
\* query executed.
C10_Health ==
    /\ (Done /\ req.path = <<HEALTH>>)
          => /\ ran = "health_check"
             /\ resp.status = 200
             /\ (fault = "none"
                   => /\ resp.body = [status |-> "healthy", database |-> "connected"]
                      /\ conn = "closed")
             /\ (fault # "none"
                   => /\ resp.body = [status |-> "unhealthy", database |-> "disconnected"]
                      /\ conn = "none")
    /\ (Done /\ ran \in Scopes /\ fault \in {"connect", "not_connected"})
          => /\ resp.status = 500
             /\ resp.detail = "Database connection failed"
             /\ queries = 0
             /\ conn = "none"

C10_Witness ==
    /\ Done /\ req.path = <<HEALTH>> /\ req.header = {}
    /\ fault = "connect"
    /\ resp.status = 200
    /\ resp.body.status = "unhealthy"

\* the requests that get as far as the limiter: a protected route, the exact
\* key, valid parameters
ReachesLimiter(r) ==
    /\ MatchRoute(r.path) \in Scopes
    /\ ValidKey(r)
    /\ ParamsValid(MatchRoute(r.path), r)

ReqKey(r) == LimitKey(r.client, MatchRoute(r.path))

\* requests admitted on key k in the last WindowSecs seconds
RollingAdmits(k) == SumOver(admits[k], Times)

\* requests admitted on key k in its current window
WindowAdmits(k) ==
    SumOver(admits[k],
            {t \in Times : t >= expirations[k] - WindowSecs /\ t < expirations[k]})

RejectedKeyStep ==
    /\ phase = "idle" /\ phase' = "done"
    /\ MatchRoute(req'.path) \in Scopes
    /\ ~ValidKey(req')

\* C9 (as claimed): the limiter runs before the auth guard, so a request
\* with an invalid key is counted against its client's window as well (and
\* is answered 429 once the ceiling is reached).
C9_LimiterBeforeAuth ==
    [][RejectedKeyStep
         => LET k == ReqKey(req')
                lim == [storage |-> storage, expirations |-> expirations]
            IN /\ storage'[k] = StorageIncr(lim, k, now).storage[k]
               /\ (storage'[k] > RateLimit => resp'.status = 429)]_vars

\* C9 (amended): the auth guard runs before the limiter: a request without
\* the exact key is answered (401 for a wrong key, 422 for a missing header)
\* without being counted, also when the client's ceiling is reached; only
\* requests that passed the guard and validation consume the allowance.
C9_AuthBeforeLimiter ==
    [][RejectedKeyStep
         => /\ storage' = storage
            /\ expirations' = expirations
            /\ resp'.status = IF req'.header = {} THEN 422 ELSE 401
            /\ ran' = "none"]_vars

C9_Witness ==
    /\ Done
    /\ req.path = <<IPOS>> /\ req.header = {WrongKey}
    /\ resp.status = 401
    /\ expirations[ReqKey(req)] > now
    /\ storage[ReqKey(req)] >= RateLimit

====
